---- MODULE Spec2Model ----
(***************************************************************************)
(* A model of ts-optional: the Optional<T> container (src/src/optional.ts) *)
(* and the guard and predicate helpers it is built on                      *)
(* (src/src/object-utils.ts, src/src/string-utils.ts).                     *)
(*                                                                         *)
(* JavaScript values are represented by strings.  A JavaScript string is   *)
(* the TLA+ string with the same characters ("" is the empty string); the  *)
(* other values are the tokens "null", "undefined", "num0", "num1", "nan", *)
(* "false" and "true".  An Error object is represented by its message.     *)
(* Optional instances are objects with identity: they live in `heap`, and  *)
(* a reference to one is its index there.  heap[1] is Optional.EMPTY.      *)
(***************************************************************************)
EXTENDS Integers, Sequences, FiniteSets, TLC

VARIABLES heap, last

vars == <<heap, last>>

\* ------------------------------------------------------------------------
\* Bounds and input sets
\* ------------------------------------------------------------------------

\* The largest number of Optional instances alive at once (EMPTY included).
MaxHeap == 3

\* The values an Optional can hold: the falsy 0, '', false and NaN among
\* them.
PresentValues == {"num0", "num1", "", "false", "nan"}

\* The two absence values of the language.
AbsentValues == {"null", "undefined"}

Values == PresentValues \cup AbsentValues

\* What stands in a result for "not a value".
NoValue == "none"

\* ------------------------------------------------------------------------
\* string-utils.ts, object-utils.ts
\* ------------------------------------------------------------------------

\* srcStr === undefined || srcStr === null || srcStr.length === 0
isNullOrEmpty(srcStr) ==
    srcStr = "undefined" \/ srcStr = "null" \/ srcStr = ""

isNotNullOrEmpty(srcStr) == ~isNullOrEmpty(srcStr)

\* The check with `value === null` alone.
isNullOrUndefined_nullOnly(value) == value = "null"

isNullOrUndefined(value) == value = "undefined" \/ value = "null"

isNotNullOrUndefined(obj) == ~isNullOrUndefined(obj)

\* A call either returns a value or throws an Error (held by its message).
Returned(v) == [threw |-> FALSE, val |-> v]

Thrown(e) == [threw |-> TRUE, val |-> e]

\* requireNonNull() testing `!obj`.
requireNonNull_falsy(obj, message) ==
    IF obj \in {"null", "undefined", "num0", "", "false", "nan"}
    THEN Thrown(IF isNotNullOrEmpty(message) THEN message ELSE "nullable argument")
    ELSE Returned(obj)

requireNonNull(obj, message) ==
    IF isNullOrUndefined(obj)
    THEN Thrown(IF isNotNullOrEmpty(message) THEN message ELSE "nullable argument")
    ELSE Returned(obj)

requireNonEmpty(str, message) ==
    IF isNullOrEmpty(str)
    THEN Thrown(IF isNotNullOrEmpty(message) THEN message
                ELSE "nullable or empty argument")
    ELSE Returned(str)

\* ------------------------------------------------------------------------
\* Caller-supplied functions (function-types.ts)
\* ------------------------------------------------------------------------

\* The error a failing callback throws.
CallbackError == "callback failed"

\* JavaScript truthiness of a value.
Truthy(v) == v \notin {"null", "undefined", "num0", "", "false", "nan"}

\* Predicate<T>: () => true, () => false, x => !!x, and one that throws.
Predicates == {"constTrue", "constFalse", "isTruthy", "throwing"}

ApplyPredicate(p, v) ==
    CASE p = "constTrue"  -> Returned("true")
      [] p = "constFalse" -> Returned("false")
      [] p = "isTruthy"   -> Returned(IF Truthy(v) THEN "true" ELSE "false")
      [] OTHER            -> Thrown(CallbackError)

\* Function<T, U>: x => x, () => null, () => undefined, () => 1,
\* x => x ? 0 : 1, and one that throws.
Mappers == {"identity", "constNull", "constUndefined", "constNum1", "flip",
            "throwing"}

ApplyMapper(m, v) ==
    CASE m = "identity"       -> Returned(v)
      [] m = "constNull"      -> Returned("null")
      [] m = "constUndefined" -> Returned("undefined")
      [] m = "constNum1"      -> Returned("num1")
      [] m = "flip"           -> Returned(IF Truthy(v) THEN "num0" ELSE "num1")
      [] OTHER                -> Thrown(CallbackError)

\* Producer<U>: a function of no argument returning a value, or throwing.
Producers == {"constNum1", "constNull", "constEmptyStr", "throwing"}

ApplyProducer(p) ==
    CASE p = "constNum1"     -> Returned("num1")
      [] p = "constNull"     -> Returned("null")
      [] p = "constEmptyStr" -> Returned("")
      [] OTHER               -> Thrown(CallbackError)

\* Producer<Error>: returns the Error the caller wants thrown.
ErrorSuppliers == {"newErrorA", "newErrorB", "throwing"}

ApplyErrorSupplier(s) ==
    CASE s = "newErrorA" -> Returned("error A")
      [] s = "newErrorB" -> Returned("error B")
      [] OTHER           -> Thrown(CallbackError)

\* Consumer<T> and Callback: return nothing, or throw.
Consumers == {"nop", "throwing"}

ApplyConsumer(c, v) ==
    IF c = "nop" THEN Returned("undefined") ELSE Thrown(CallbackError)

\* One entry of the record of callback invocations made by an operation.
Call(fn, arg) == [fn |-> fn, arg |-> arg]

\* ------------------------------------------------------------------------
\* optional.ts: the Optional class
\* ------------------------------------------------------------------------

\* private static readonly EMPTY = new Optional<any>(): the first instance.
EMPTY == 1

\* What stands for "not a reference": the index before the first instance.
NoRef == EMPTY - 1

\* The outcome of a method call: the heap after it, and what it gave back:
\* a reference to an Optional, a plain value, or a thrown Error; and the
\* callbacks it invoked, in order.
RetOptional(h, ref, calls) ==
    [heap |-> h, kind |-> "optional", ref |-> ref, val |-> NoValue, calls |-> calls]

RetValue(h, v, calls) ==
    [heap |-> h, kind |-> "value", ref |-> NoRef, val |-> v, calls |-> calls]

Throw(h, e, calls) ==
    [heap |-> h, kind |-> "throw", ref |-> NoRef, val |-> e, calls |-> calls]

\* The constructor testing `!value` in place of isNullOrUndefined(value).
Optional_new_falsy(h, value) ==
    IF ~Truthy(value)
    THEN Append(h, [value |-> "null"])
    ELSE Append(h, [value |-> value])

\* private constructor(value?: T): a new instance at the end of the heap.
Optional_new(h, value) ==
    IF isNullOrUndefined(value)
    THEN Append(h, [value |-> "null"])
    ELSE Append(h, [value |-> value])

\* The heap once the class is loaded: the argument of the constructor is
\* omitted, that is undefined.
StaticInit == Optional_new(<<>>, "undefined")

\* public static empty<T>()
Optional_empty(h) == RetOptional(h, EMPTY, <<>>)

\* public static of<T>(value: T)
Optional_of(h, value) ==
    LET checked == requireNonNull(value, "undefined")
    IN  IF checked.threw
        THEN Throw(h, checked.val, <<>>)
        ELSE RetOptional(Optional_new(h, checked.val), Len(h) + 1, <<>>)

\* ofNullable() constructing a new instance for an absent value too.
Optional_ofNullable_fresh(h, value) ==
    IF isNullOrUndefined(value)
    THEN RetOptional(Optional_new(h, value), Len(h) + 1, <<>>)
    ELSE Optional_of(h, value)

\* public static ofNullable<T>(value)
Optional_ofNullable(h, value) ==
    IF isNullOrUndefined(value) THEN Optional_empty(h) ELSE Optional_of(h, value)

\* private get nonNullValue()
nonNullValue(h, this) == h[this].value

\* isPresent() as `!!this.value`.
isPresent_truthy(h, this) == Truthy(h[this].value)

\* isPresent() and isEmpty(), as the booleans the other methods branch on.
isPresent(h, this) == isNotNullOrUndefined(h[this].value)

isEmpty(h, this) == isNullOrUndefined(h[this].value)

\* A boolean as a JavaScript value.
Bool(b) == IF b THEN "true" ELSE "false"

\* get() testing `!this.value`.
get_falsy(h, this) ==
    IF ~Truthy(h[this].value)
    THEN Throw(h, "No value present", <<>>)
    ELSE RetValue(h, h[this].value, <<>>)

\* public get(): T
get(h, this) ==
    IF isNullOrUndefined(h[this].value)
    THEN Throw(h, "No value present", <<>>)
    ELSE RetValue(h, h[this].value, <<>>)

\* public ifPresent(consumer): void
ifPresent(h, this, consumer) ==
    IF isNotNullOrUndefined(h[this].value)
    THEN LET done == ApplyConsumer(consumer, nonNullValue(h, this))
             made == <<Call("consumer", nonNullValue(h, this))>>
         IN  IF done.threw THEN Throw(h, done.val, made)
                           ELSE RetValue(h, "undefined", made)
    ELSE RetValue(h, "undefined", <<>>)

\* ifPresentOrElse() testing `this.value` for truthiness.
ifPresentOrElse_truthy(h, this, action, emptyAction) ==
    IF Truthy(h[this].value)
    THEN LET done == ApplyConsumer(action, nonNullValue(h, this))
             made == <<Call("action", nonNullValue(h, this))>>
         IN  IF done.threw THEN Throw(h, done.val, made)
                           ELSE RetValue(h, "undefined", made)
    ELSE LET done == ApplyConsumer(emptyAction, "undefined")
             made == <<Call("emptyAction", NoValue)>>
         IN  IF done.threw THEN Throw(h, done.val, made)
                           ELSE RetValue(h, "undefined", made)

\* public ifPresentOrElse(action, emptyAction): void
ifPresentOrElse(h, this, action, emptyAction) ==
    IF isNotNullOrUndefined(h[this].value)
    THEN LET done == ApplyConsumer(action, nonNullValue(h, this))
             made == <<Call("action", nonNullValue(h, this))>>
         IN  IF done.threw THEN Throw(h, done.val, made)
                           ELSE RetValue(h, "undefined", made)
    ELSE LET done == ApplyConsumer(emptyAction, "undefined")
             made == <<Call("emptyAction", NoValue)>>
         IN  IF done.threw THEN Throw(h, done.val, made)
                           ELSE RetValue(h, "undefined", made)

\* filter() emptying the receiver in place when the predicate fails.
filter_inPlace(h, this, predicate) ==
    LET checked == requireNonNull(predicate, "undefined")
    IN  IF checked.threw THEN Throw(h, checked.val, <<>>)
        ELSE IF ~isPresent(h, this) THEN RetOptional(h, this, <<>>)
        ELSE LET test == ApplyPredicate(predicate, nonNullValue(h, this))
                 made == <<Call("predicate", nonNullValue(h, this))>>
             IN  IF test.threw THEN Throw(h, test.val, made)
                 ELSE IF Truthy(test.val) THEN RetOptional(h, this, made)
                 ELSE RetOptional([h EXCEPT ![this] = [value |-> "null"]],
                                  this, made)

\* filter() without the branch on presence: the predicate always runs.
filter_noPresenceBranch(h, this, predicate) ==
    LET checked == requireNonNull(predicate, "undefined")
    IN  IF checked.threw THEN Throw(h, checked.val, <<>>)
        ELSE LET test == ApplyPredicate(predicate, nonNullValue(h, this))
                 made == <<Call("predicate", nonNullValue(h, this))>>
             IN  IF test.threw THEN Throw(h, test.val, made)
                 ELSE IF Truthy(test.val) THEN RetOptional(h, this, made)
                 ELSE RetOptional(h, Optional_empty(h).ref, made)

\* public filter(predicate): Optional<T>
filter(h, this, predicate) ==
    LET checked == requireNonNull(predicate, "undefined")
    IN  IF checked.threw THEN Throw(h, checked.val, <<>>)
        ELSE IF ~isPresent(h, this) THEN RetOptional(h, this, <<>>)
        ELSE LET test == ApplyPredicate(predicate, nonNullValue(h, this))
                 made == <<Call("predicate", nonNullValue(h, this))>>
             IN  IF test.threw THEN Throw(h, test.val, made)
                 ELSE IF Truthy(test.val) THEN RetOptional(h, this, made)
                 ELSE RetOptional(h, Optional_empty(h).ref, made)

\* map() validating the mapper only once a value is known to be present.
map_lateCheck(h, this, mapper) ==
    IF ~isPresent(h, this) THEN Optional_empty(h)
    ELSE LET checked == requireNonNull(mapper, "undefined")
         IN  IF checked.threw THEN Throw(h, checked.val, <<>>)
             ELSE LET mapped == ApplyMapper(mapper, nonNullValue(h, this))
                      made == <<Call("mapper", nonNullValue(h, this))>>
                  IN  IF mapped.threw THEN Throw(h, mapped.val, made)
                      ELSE LET wrapped == Optional_ofNullable(h, mapped.val)
                           IN  [wrapped EXCEPT !.calls = made]

\* map() wrapping the mapper's result with of() in place of ofNullable().
map_wrapWithOf(h, this, mapper) ==
    LET checked == requireNonNull(mapper, "undefined")
    IN  IF checked.threw THEN Throw(h, checked.val, <<>>)
        ELSE IF ~isPresent(h, this) THEN Optional_empty(h)
        ELSE LET mapped == ApplyMapper(mapper, nonNullValue(h, this))
                 made == <<Call("mapper", nonNullValue(h, this))>>
             IN  IF mapped.threw THEN Throw(h, mapped.val, made)
                 ELSE LET wrapped == Optional_of(h, mapped.val)
                      IN  [wrapped EXCEPT !.calls = made]

\* public map<U>(mapper): Optional<U>
map(h, this, mapper) ==
    LET checked == requireNonNull(mapper, "undefined")
    IN  IF checked.threw THEN Throw(h, checked.val, <<>>)
        ELSE IF ~isPresent(h, this) THEN Optional_empty(h)
        ELSE LET mapped == ApplyMapper(mapper, nonNullValue(h, this))
                 made == <<Call("mapper", nonNullValue(h, this))>>
             IN  IF mapped.threw THEN Throw(h, mapped.val, made)
                 ELSE LET wrapped == Optional_ofNullable(h, mapped.val)
                      IN  [wrapped EXCEPT !.calls = made]

\* Function<T, Optional<U>>: the mappers handed to flatMap.  A mapper is
\* [kind, captured, inner]: "retCaptured" returns the Optional `captured`
\* that its closure holds, "retNull" and "retUndefined" return no Optional,
\* "of" is x => Optional.of(x), "ofNullable" is
\* x => Optional.ofNullable(inner(x)), "empty" is () => Optional.empty().
FlatMapperKinds ==
    {"retCaptured", "retNull", "retUndefined", "of", "ofNullable", "empty",
     "throwing"}

\* The outcome of calling a flatMap mapper: as for a method, where a
\* returned null or undefined is the value and a returned Optional the ref.
ApplyFlatMapper(h, mapper, v) ==
    CASE mapper.kind = "retCaptured"  -> RetOptional(h, mapper.captured, <<>>)
      [] mapper.kind = "retNull"      -> RetValue(h, "null", <<>>)
      [] mapper.kind = "retUndefined" -> RetValue(h, "undefined", <<>>)
      [] mapper.kind = "of"           -> Optional_of(h, v)
      [] mapper.kind = "ofNullable"   ->
            LET inner == ApplyMapper(mapper.inner, v)
            IN  IF inner.threw THEN Throw(h, inner.val, <<>>)
                ELSE Optional_ofNullable(h, inner.val)
      [] mapper.kind = "empty"        -> Optional_empty(h)
      [] OTHER                        -> Throw(h, CallbackError, <<>>)

\* flatMap() returning the mapper's result without requireNonNull.
flatMap_noResultCheck(h, this, mapper) ==
    LET checked == requireNonNull(mapper.kind, "undefined")
    IN  IF checked.threw THEN Throw(h, checked.val, <<>>)
        ELSE IF ~isPresent(h, this) THEN Optional_empty(h)
        ELSE LET mapped == ApplyFlatMapper(h, mapper, nonNullValue(h, this))
                 made == <<Call("mapper", nonNullValue(h, this))>>
             IN  IF mapped.kind = "throw" THEN Throw(mapped.heap, mapped.val, made)
                 ELSE [mapped EXCEPT !.calls = made]

\* public flatMap<U>(mapper): Optional<U>
flatMap(h, this, mapper) ==
    LET checked == requireNonNull(mapper.kind, "undefined")
    IN  IF checked.threw THEN Throw(h, checked.val, <<>>)
        ELSE IF ~isPresent(h, this) THEN Optional_empty(h)
        ELSE LET mapped == ApplyFlatMapper(h, mapper, nonNullValue(h, this))
                 made == <<Call("mapper", nonNullValue(h, this))>>
             IN  IF mapped.kind = "throw" THEN Throw(mapped.heap, mapped.val, made)
                 ELSE IF mapped.kind = "value"
                 THEN LET result == requireNonNull(mapped.val, "undefined")
                      IN  Throw(mapped.heap, result.val, made)
                 ELSE RetOptional(mapped.heap, mapped.ref, made)

\* public orElse(other: T): T
orElse(h, this, other) ==
    IF ~isNullOrUndefined(h[this].value)
    THEN RetValue(h, nonNullValue(h, this), <<>>)
    ELSE RetValue(h, other, <<>>)

\* orElseGet() calling the producer before looking at the value.
orElseGet_eager(h, this, other) ==
    LET produced == ApplyProducer(other)
        made == <<Call("producer", NoValue)>>
    IN  IF produced.threw THEN Throw(h, produced.val, made)
        ELSE IF ~isNullOrUndefined(h[this].value)
        THEN RetValue(h, nonNullValue(h, this), made)
        ELSE RetValue(h, produced.val, made)

\* public orElseGet<U>(other: Producer<U>): T | U
orElseGet(h, this, other) ==
    IF ~isNullOrUndefined(h[this].value)
    THEN RetValue(h, nonNullValue(h, this), <<>>)
    ELSE LET produced == ApplyProducer(other)
             made == <<Call("producer", NoValue)>>
         IN  IF produced.threw THEN Throw(h, produced.val, made)
                               ELSE RetValue(h, produced.val, made)

\* public orElseThrow(exceptionSupplier: Producer<Error>): T
orElseThrow(h, this, exceptionSupplier) ==
    IF ~isNullOrUndefined(h[this].value)
    THEN RetValue(h, nonNullValue(h, this), <<>>)
    ELSE LET supplied == ApplyErrorSupplier(exceptionSupplier)
             made == <<Call("exceptionSupplier", NoValue)>>
         IN  Throw(h, supplied.val, made)

\* a === b on values: NaN is the one value not strictly equal to itself.
StrictEquals(a, b) == a = b /\ a # "nan"

\* equals() without the test `this === obj`.
equals_noReferenceTest(h, this, obj) ==
    StrictEquals(h[this].value, h[obj].value)

\* public equals(obj: Optional<T>): boolean
equals(h, this, obj) ==
    IF this = obj THEN TRUE ELSE StrictEquals(h[this].value, h[obj].value)

\* ------------------------------------------------------------------------
\* The state machine: a client calling the public API
\* ------------------------------------------------------------------------

NoArg == "none"

\* The record of the latest call: what was called on which receiver with
\* which arguments, and its outcome.
Record(op, recv, arg, message, fn, fn2, argRef, inner, out) ==
    [op |-> op, recv |-> recv, arg |-> arg, message |-> message,
     fn |-> fn, fn2 |-> fn2,
     argRef |-> argRef, inner |-> inner,
     kind |-> out.kind, ref |-> out.ref, val |-> out.val, calls |-> out.calls]

\* A call takes place when its new instances fit the heap.
Perform(op, recv, arg, message, fn, fn2, argRef, inner, out) ==
    /\ Len(out.heap) <= MaxHeap
    /\ heap' = out.heap
    /\ last' = Record(op, recv, arg, message, fn, fn2, argRef, inner, out)

Refs == DOMAIN heap

Init ==
    /\ heap = StaticInit
    /\ last = Record("load", NoRef, NoArg, NoArg, NoArg, NoArg, NoRef, NoArg,
                     RetValue(StaticInit, "undefined", <<>>))

Empty ==
    Perform("empty", NoRef, NoArg, NoArg, NoArg, NoArg, NoRef, NoArg,
            Optional_empty(heap))

Of ==
    \E v \in Values :
        Perform("of", NoRef, v, NoArg, NoArg, NoArg, NoRef, NoArg, Optional_of(heap, v))

OfNullable ==
    \E v \in Values :
        Perform("ofNullable", NoRef, v, NoArg, NoArg, NoArg, NoRef, NoArg,
                Optional_ofNullable(heap, v))

Get ==
    \E o \in Refs :
        Perform("get", o, NoArg, NoArg, NoArg, NoArg, NoRef, NoArg, get(heap, o))

IsPresent ==
    \E o \in Refs :
        Perform("isPresent", o, NoArg, NoArg, NoArg, NoArg, NoRef, NoArg,
                RetValue(heap, Bool(isPresent(heap, o)), <<>>))

IsEmpty ==
    \E o \in Refs :
        Perform("isEmpty", o, NoArg, NoArg, NoArg, NoArg, NoRef, NoArg,
                RetValue(heap, Bool(isEmpty(heap, o)), <<>>))

IfPresent ==
    \E o \in Refs, c \in Consumers :
        Perform("ifPresent", o, NoArg, NoArg, c, NoArg, NoRef, NoArg,
                ifPresent(heap, o, c))

IfPresentOrElse ==
    \E o \in Refs, a \in Consumers, e \in Consumers :
        Perform("ifPresentOrElse", o, NoArg, NoArg, a, e, NoRef, NoArg,
                ifPresentOrElse(heap, o, a, e))

Filter ==
    \E o \in Refs, p \in Predicates \cup AbsentValues :
        Perform("filter", o, NoArg, NoArg, p, NoArg, NoRef, NoArg, filter(heap, o, p))

Map ==
    \E o \in Refs, m \in Mappers \cup AbsentValues :
        Perform("map", o, NoArg, NoArg, m, NoArg, NoRef, NoArg, map(heap, o, m))

\* The mappers a client can hand to flatMap in the current state.
FlatMappers ==
    [kind : {"retCaptured"}, captured : Refs, inner : {NoArg}]
    \cup [kind : {"ofNullable"}, captured : {NoRef}, inner : Mappers]
    \cup [kind : (FlatMapperKinds \ {"retCaptured", "ofNullable"}) \cup AbsentValues,
          captured : {NoRef}, inner : {NoArg}]

FlatMap ==
    \E o \in Refs, m \in FlatMappers :
        Perform("flatMap", o, NoArg, NoArg, m.kind, NoArg, m.captured, m.inner,
                flatMap(heap, o, m))

OrElse ==
    \E o \in Refs, v \in Values :
        Perform("orElse", o, v, NoArg, NoArg, NoArg, NoRef, NoArg, orElse(heap, o, v))

OrElseGet ==
    \E o \in Refs, p \in Producers :
        Perform("orElseGet", o, NoArg, NoArg, p, NoArg, NoRef, NoArg,
                orElseGet(heap, o, p))

OrElseThrow ==
    \E o \in Refs, s \in ErrorSuppliers :
        Perform("orElseThrow", o, NoArg, NoArg, s, NoArg, NoRef, NoArg,
                orElseThrow(heap, o, s))

\* The messages handed to the guard helpers: none (undefined), null, the
\* empty string, and a text.
Messages == {"undefined", "null", "", "Test Error"}

\* The strings handed to requireNonEmpty.
Strings == {"undefined", "null", "", "Just a string"}

\* The outcome of a guard helper as the outcome of a call.
Guarded(h, checked) ==
    IF checked.threw THEN Throw(h, checked.val, <<>>)
                     ELSE RetValue(h, checked.val, <<>>)

RequireNonNull ==
    \E v \in Values, m \in Messages :
        Perform("requireNonNull", NoRef, v, m, NoArg, NoArg, NoRef, NoArg,
                Guarded(heap, requireNonNull(v, m)))

RequireNonEmpty ==
    \E str \in Strings, m \in Messages :
        Perform("requireNonEmpty", NoRef, str, m, NoArg, NoArg, NoRef, NoArg,
                Guarded(heap, requireNonEmpty(str, m)))

Equals ==
    \E o \in Refs, obj \in Refs :
        Perform("equals", o, NoArg, NoArg, NoArg, NoArg, obj, NoArg,
                RetValue(heap, Bool(equals(heap, o, obj)), <<>>))

Next ==
    \/ Empty
    \/ Of
    \/ OfNullable
    \/ Get
    \/ IsPresent
    \/ IsEmpty
    \/ IfPresent
    \/ IfPresentOrElse
    \/ Filter
    \/ Map
    \/ FlatMap
    \/ OrElse
    \/ OrElseGet
    \/ OrElseThrow
    \/ Equals
    \/ RequireNonNull
    \/ RequireNonEmpty

Spec == Init /\ [][Next]_vars

TypeOK ==
    /\ heap \in Seq([value : Values])
    /\ Len(heap) \in 1..MaxHeap
    /\ last.kind \in {"optional", "value", "throw"}
    /\ last.ref \in 0..Len(heap)

\* ------------------------------------------------------------------------
\* Properties
\* ------------------------------------------------------------------------

\* C1: for every value v that is neither null nor undefined (0, '' and
\* false included), Optional.of(v) and Optional.ofNullable(v) return a
\* present Optional: get() returns exactly v, isPresent() is true and
\* isEmpty() is false.
C1_OfPresent ==
    (last.op \in {"of", "ofNullable"} /\ last.arg \in PresentValues) =>
        /\ last.kind = "optional"
        /\ last.ref \in DOMAIN heap
        /\ get(heap, last.ref) = RetValue(heap, last.arg, <<>>)
        /\ isPresent(heap, last.ref)
        /\ ~isEmpty(heap, last.ref)

\* of(0), of('') and of(false) have each returned an Optional.
C1_Witness ==
    /\ last.op = "of"
    /\ last.arg \in {"num0", "", "false"}
    /\ last.kind = "optional"

\* C2: for v null or undefined, Optional.of(v) throws an Error with the
\* message 'nullable argument' and makes no instance, and
\* Optional.ofNullable(v) does not throw and returns an empty Optional
\* (isEmpty() true, isPresent() false).
C2_OfAbsent ==
    [][ /\ (last'.op = "of" /\ last'.arg \in AbsentValues) =>
              /\ last'.kind = "throw"
              /\ last'.val = "nullable argument"
              /\ heap' = heap
        /\ (last'.op = "ofNullable" /\ last'.arg \in AbsentValues) =>
              /\ last'.kind = "optional"
              /\ last'.ref \in DOMAIN heap'
              /\ isEmpty(heap', last'.ref)
              /\ ~isPresent(heap', last'.ref) ]_vars

\* of(undefined) has thrown.
C2_Witness ==
    /\ last.op = "of"
    /\ last.arg = "undefined"
    /\ last.kind = "throw"

\* What get() owes on the instance o: the Error 'No value present' when o
\* holds no value, the value it holds otherwise.
GetIsRight(o, out) ==
    IF heap[o].value \in AbsentValues
    THEN out.kind = "throw" /\ out.val = "No value present"
    ELSE out.kind = "value" /\ out.val = heap[o].value

\* C3: get() on an empty Optional, however it was obtained (empty(),
\* ofNullable(null/undefined), an empty result of filter, map or flatMap),
\* throws an Error with the message 'No value present'; get() on a present
\* Optional returns the value it holds and does not throw.
C3_Get ==
    /\ last.op = "get" => GetIsRight(last.recv, last)
    /\ last.kind = "optional" => GetIsRight(last.ref, get(heap, last.ref))

\* get() has thrown on an empty Optional while a present one holding a
\* falsy value exists.
C3_Witness ==
    /\ last.op = "get"
    /\ heap[last.recv].value = "null"
    /\ last.kind = "throw"
    /\ \E o \in DOMAIN heap : heap[o].value = "num0"

\* C4: for every Optional instance reachable through the factories and the
\* combinators, isEmpty() is the negation of isPresent() (exactly one of the
\* two is true), and the two answers never change while the instance lives.
C4_EmptyXorPresent ==
    /\ [](/\ \A o \in DOMAIN heap : isEmpty(heap, o) = ~isPresent(heap, o)
          /\ last.op = "isPresent" =>
                last.val = Bool(heap[last.recv].value \notin AbsentValues)
          /\ last.op = "isEmpty" =>
                last.val = Bool(heap[last.recv].value \in AbsentValues))
    /\ [][\A o \in DOMAIN heap :
            /\ o \in DOMAIN heap'
            /\ isPresent(heap', o) = isPresent(heap, o)
            /\ isEmpty(heap', o) = isEmpty(heap, o)]_vars

\* isPresent() has answered true on an Optional holding false.
C4_Witness ==
    /\ last.op = "isPresent"
    /\ heap[last.recv].value = "false"
    /\ last.val = "true"

\* C5: filter(predicate) with a non-null predicate.  On a present Optional
\* it invokes predicate(value) exactly once and returns the receiver itself
\* when the predicate returns true and an empty Optional when it returns
\* false; on an empty Optional it returns an empty Optional without
\* invoking the predicate, whatever the predicate would return.
C5_Filter ==
    (last.op = "filter" /\ last.fn \in Predicates) =>
        IF heap[last.recv].value \in AbsentValues
        THEN /\ last.kind = "optional"
             /\ heap[last.ref].value \in AbsentValues
             /\ last.calls = <<>>
        ELSE LET test == ApplyPredicate(last.fn, heap[last.recv].value)
             IN  /\ last.calls = <<Call("predicate", heap[last.recv].value)>>
                 /\ (~test.threw /\ test.val = "true") =>
                        last.kind = "optional" /\ last.ref = last.recv
                 /\ (~test.threw /\ test.val = "false") =>
                        /\ last.kind = "optional"
                        /\ heap[last.ref].value \in AbsentValues

\* filter(x => !!x) has turned an Optional holding 0 into an empty one.
C5_Witness ==
    /\ last.op = "filter"
    /\ last.fn = "isTruthy"
    /\ heap[last.recv].value = "num0"
    /\ last.kind = "optional"
    /\ last.ref # last.recv

\* C6: a null or undefined function handed to filter, map or flatMap makes
\* the call throw the Error 'nullable argument' whether the receiver is
\* present or empty; the check comes before the branch on presence, so no
\* callback runs, nothing is returned and no instance changes.
C6_NullFunction ==
    [][(last'.op \in {"filter", "map", "flatMap"} /\ last'.fn \in AbsentValues) =>
          /\ last'.kind = "throw"
          /\ last'.val = "nullable argument"
          /\ last'.ref = NoRef
          /\ last'.calls = <<>>
          /\ heap' = heap]_vars

\* map(null) has thrown on the empty Optional.
C6_Witness ==
    /\ last.op = "map"
    /\ last.fn = "null"
    /\ heap[last.recv].value = "null"
    /\ last.kind = "throw"

\* C7: map(mapper) with a non-null mapper.  On an empty Optional it returns
\* an empty Optional and the mapper is not invoked; on a present Optional it
\* invokes mapper(value) exactly once and returns ofNullable of the result:
\* a present Optional holding the result when that is neither null nor
\* undefined, an empty Optional otherwise, never a present Optional
\* holding null.
C7_Map ==
    (last.op = "map" /\ last.fn \in Mappers) =>
        IF heap[last.recv].value \in AbsentValues
        THEN /\ last.kind = "optional"
             /\ heap[last.ref].value \in AbsentValues
             /\ last.calls = <<>>
        ELSE LET mapped == ApplyMapper(last.fn, heap[last.recv].value)
             IN  /\ last.calls = <<Call("mapper", heap[last.recv].value)>>
                 /\ ~mapped.threw =>
                        /\ last.kind = "optional"
                        /\ IF mapped.val \in AbsentValues
                           THEN /\ heap[last.ref].value = "null"
                                /\ isEmpty(heap, last.ref)
                                /\ ~isPresent(heap, last.ref)
                           ELSE /\ heap[last.ref].value = mapped.val
                                /\ isPresent(heap, last.ref)

\* map(() => undefined) on a present Optional has returned an Optional.
C7_Witness ==
    /\ last.op = "map"
    /\ last.fn = "constUndefined"
    /\ heap[last.recv].value \in PresentValues
    /\ last.kind = "optional"

\* C8: flatMap(mapper) with a non-null mapper.  On an empty Optional it
\* returns an empty Optional without invoking the mapper; on a present
\* Optional it invokes mapper(value) exactly once and returns the very
\* Optional the mapper returned, with no further wrapping, and it throws an
\* Error when the mapper returns null or undefined.
C8_FlatMap ==
    [][(last'.op = "flatMap" /\ last'.fn \in FlatMapperKinds) =>
          IF heap[last'.recv].value \in AbsentValues
          THEN /\ last'.kind = "optional"
               /\ heap'[last'.ref].value \in AbsentValues
               /\ last'.calls = <<>>
               /\ heap' = heap
          ELSE /\ last'.calls = <<Call("mapper", heap[last'.recv].value)>>
               /\ last'.fn = "retCaptured" =>
                     /\ last'.kind = "optional"
                     /\ last'.ref = last'.argRef
                     /\ heap' = heap
               /\ last'.fn = "empty" =>
                     /\ last'.kind = "optional"
                     /\ last'.ref = EMPTY
                     /\ heap' = heap
               /\ last'.fn = "of" =>
                     /\ last'.kind = "optional"
                     /\ last'.ref = Len(heap) + 1
                     /\ heap' = Append(heap, [value |-> heap[last'.recv].value])
               /\ last'.fn \in {"retNull", "retUndefined"} =>
                     /\ last'.kind = "throw"
                     /\ last'.val = "nullable argument"
                     /\ heap' = heap]_vars

\* flatMap has returned the present Optional its mapper held, which is not
\* the receiver.
C8_Witness ==
    /\ last.op = "flatMap"
    /\ last.fn = "retCaptured"
    /\ heap[last.recv].value \in PresentValues
    /\ last.kind = "optional"
    /\ last.ref = last.argRef
    /\ last.ref # last.recv
    /\ heap[last.ref].value \in PresentValues

\* C9: orElse, orElseGet and orElseThrow on a present Optional return the
\* value it holds and invoke the producer or the error supplier zero times;
\* on an empty Optional orElse returns `other` as it is, orElseGet returns
\* the result of exactly one producer() call, and orElseThrow throws exactly
\* the error that exactly one errorSupplier() call returned.
C9_Fallback ==
    (last.op \in {"orElse", "orElseGet", "orElseThrow"}) =>
        IF heap[last.recv].value \notin AbsentValues
        THEN /\ last.kind = "value"
             /\ last.val = heap[last.recv].value
             /\ last.calls = <<>>
        ELSE /\ last.op = "orElse" =>
                 /\ last.kind = "value"
                 /\ last.val = last.arg
                 /\ last.calls = <<>>
             /\ last.op = "orElseGet" =>
                 /\ last.calls = <<Call("producer", NoValue)>>
                 /\ ~ApplyProducer(last.fn).threw =>
                        /\ last.kind = "value"
                        /\ last.val = ApplyProducer(last.fn).val
             /\ last.op = "orElseThrow" =>
                 /\ last.calls = <<Call("exceptionSupplier", NoValue)>>
                 /\ last.kind = "throw"
                 /\ ~ApplyErrorSupplier(last.fn).threw =>
                        last.val = ApplyErrorSupplier(last.fn).val

\* orElseGet has returned an Optional's own '' without calling the producer.
C9_Witness ==
    /\ last.op = "orElseGet"
    /\ last.fn = "constNum1"
    /\ heap[last.recv].value = ""
    /\ last.val = ""
    /\ last.calls = <<>>

\* C10: ifPresentOrElse(action, emptyAction) invokes exactly one of its two
\* callbacks, exactly once: action(value) when the Optional is present,
\* emptyAction() when it is empty; ifPresent(consumer) invokes
\* consumer(value) exactly once when present and does nothing when empty.
C10_IfPresent ==
    /\ last.op = "ifPresentOrElse" =>
          IF heap[last.recv].value \notin AbsentValues
          THEN last.calls = <<Call("action", heap[last.recv].value)>>
          ELSE last.calls = <<Call("emptyAction", NoValue)>>
    /\ last.op = "ifPresent" =>
          IF heap[last.recv].value \notin AbsentValues
          THEN last.calls = <<Call("consumer", heap[last.recv].value)>>
          ELSE last.calls = <<>> /\ last.kind = "value" /\ last.val = "undefined"

\* ifPresentOrElse has called action(false) on an Optional holding false.
C10_Witness ==
    /\ last.op = "ifPresentOrElse"
    /\ heap[last.recv].value = "false"
    /\ last.calls = <<Call("action", "false")>>
    /\ last.kind = "value"

\* C11: equals.  Every instance equals itself; two independently
\* constructed present instances are equal exactly when the values they
\* hold are equal under the shallow comparison === (so NaN, which is not ===
\* to itself, makes two distinct instances unequal); any two empty
\* instances are equal; a present and an empty instance are never equal,
\* in either order.
C11_Equals ==
    /\ \A a \in DOMAIN heap : equals(heap, a, a)
    /\ \A a, b \in DOMAIN heap :
          LET va == heap[a].value
              vb == heap[b].value
          IN  /\ (a # b /\ va \in PresentValues /\ vb \in PresentValues) =>
                    (equals(heap, a, b) <=> (va = vb /\ va # "nan"))
              /\ (va \in AbsentValues /\ vb \in AbsentValues) => equals(heap, a, b)
              /\ (va \in PresentValues /\ vb \in AbsentValues) =>
                    ~equals(heap, a, b) /\ ~equals(heap, b, a)
    /\ last.op = "equals" =>
          last.val = Bool(equals(heap, last.recv, last.argRef))

\* equals() has answered true on an instance holding NaN compared with
\* itself, while a second instance holds NaN too.
C11_Witness ==
    /\ last.op = "equals"
    /\ last.recv = last.argRef
    /\ heap[last.recv].value = "nan"
    /\ last.val = "true"
    /\ \E b \in DOMAIN heap : b # last.recv /\ heap[b].value = "nan"

\* The message a guard helper throws with: the caller's when it is given
\* and not empty, the helper's own otherwise.
MessageOr(message, default) ==
    IF message \in {"undefined", "null", ""} THEN default ELSE message

\* C12: requireNonNull(value, message?) returns value unchanged when it is
\* neither null nor undefined (0, '' and false included) and otherwise
\* throws an Error whose message is `message` when that is given and not
\* empty, else 'nullable argument'; requireNonEmpty(str, message?) returns
\* str unchanged when it is a non-empty string and otherwise (null,
\* undefined or '') throws with `message` when given and not empty, else
\* 'nullable or empty argument'.
C12_Guards ==
    /\ last.op = "requireNonNull" =>
          IF last.arg \notin AbsentValues
          THEN last.kind = "value" /\ last.val = last.arg
          ELSE /\ last.kind = "throw"
               /\ last.val = MessageOr(last.message, "nullable argument")
    /\ last.op = "requireNonEmpty" =>
          IF last.arg \notin {"null", "undefined", ""}
          THEN last.kind = "value" /\ last.val = last.arg
          ELSE /\ last.kind = "throw"
               /\ last.val = MessageOr(last.message, "nullable or empty argument")

\* requireNonNull(0, 'Test Error') has returned 0.
C12_Witness ==
    /\ last.op = "requireNonNull"
    /\ last.arg = "num0"
    /\ last.message = "Test Error"
    /\ last.kind = "value"
    /\ last.val = "num0"

\* C13: an Optional is immutable after construction.  After any sequence of
\* get, isPresent, isEmpty, ifPresent, ifPresentOrElse, filter, map,
\* flatMap, orElse, orElseGet, orElseThrow and equals calls on an instance,
\* calls that throw included, its presence and the value it holds are what
\* they were right after construction, and the shared empty instance stays
\* empty.
C13_Immutable ==
    /\ [](heap[EMPTY].value \in AbsentValues)
    /\ [][\A o \in DOMAIN heap :
            /\ o \in DOMAIN heap'
            /\ heap'[o].value = heap[o].value]_vars

\* filter has thrown out of its predicate on a present Optional, which
\* still holds its value.
C13_Witness ==
    /\ last.op = "filter"
    /\ last.fn = "throwing"
    /\ last.kind = "throw"
    /\ heap[last.recv].value = "num1"

\* C14: there is exactly one empty instance.  of() never produces an empty
\* Optional, so after any sequence of empty, of, ofNullable, filter, map and
\* flatMap calls (the flatMap mappers returning Optionals obtained from the
\* factories) every Optional whose isEmpty() is true is the same instance as
\* Optional.empty(), and its slot holds null, never undefined.
C14_SingleEmpty ==
    /\ \A o \in DOMAIN heap :
          (isEmpty(heap, o) \/ heap[o].value \in AbsentValues) =>
              /\ o = Optional_empty(heap).ref
              /\ heap[o].value = "null"
    /\ heap[EMPTY].value = "null"
    /\ (last.op = "of" /\ last.kind = "optional") =>
          heap[last.ref].value \in PresentValues
    /\ (last.kind = "optional" /\ heap[last.ref].value \in AbsentValues) =>
          last.ref = EMPTY

\* map(() => undefined) on a present Optional has returned the shared empty
\* instance while the heap holds two present ones.
C14_Witness ==
    /\ last.op = "map"
    /\ last.fn = "constUndefined"
    /\ heap[last.recv].value \in PresentValues
    /\ last.ref = EMPTY
    /\ Len(heap) = 3

\* The mappers of the identity laws that return a result.
LawMappers == Mappers \ {"throwing"}

\* o.map(x => x) equals o.
MapIdentityLaw(o) ==
    LET mapped == map(heap, o, "identity")
    IN  mapped.kind = "optional" /\ equals(mapped.heap, mapped.ref, o)

\* o.flatMap(x => Optional.of(x)) equals o.
FlatMapOfLaw(o) ==
    LET bound == flatMap(heap, o,
                         [kind |-> "of", captured |-> NoRef, inner |-> NoArg])
    IN  bound.kind = "optional" /\ equals(bound.heap, bound.ref, o)

\* o.map(f) equals o.flatMap(x => Optional.ofNullable(f(x))).
MapAsFlatMapLaw(o, f) ==
    LET mapped == map(heap, o, f)
        bound == flatMap(mapped.heap, o,
                         [kind |-> "ofNullable", captured |-> NoRef, inner |-> f])
    IN  /\ mapped.kind = "optional"
        /\ bound.kind = "optional"
        /\ equals(bound.heap, mapped.ref, bound.ref)

\* The laws as observed on the calls made: the result of map(x => x) and of
\* flatMap(x => Optional.of(x)) equals the receiver.
ObservedLaws(receivers) ==
    (/\ last.op \in {"map", "flatMap"}
     /\ last.fn = (IF last.op = "map" THEN "identity" ELSE "of")
     /\ last.recv \in receivers) =>
        last.kind = "optional" /\ equals(heap, last.ref, last.recv)

\* C15 as stated: the identity laws hold for every Optional o, present or
\* empty: o.map(x => x) equals o, o.flatMap(x => Optional.of(x)) equals o,
\* and for every mapper f, o.map(f) equals
\* o.flatMap(x => Optional.ofNullable(f(x))), in the sense of equals().
C15_Original ==
    /\ \A o \in DOMAIN heap :
          /\ MapIdentityLaw(o)
          /\ FlatMapOfLaw(o)
          /\ \A f \in LawMappers : MapAsFlatMapLaw(o, f)
    /\ ObservedLaws(DOMAIN heap)

\* The instances whose value is strictly equal to itself: all but those
\* holding NaN.
SelfEqual == {o \in DOMAIN heap : heap[o].value # "nan"}

\* C15, amended: o.map(x => x) equals o and o.flatMap(x => Optional.of(x))
\* equals o for every Optional o, present or empty, whose value is not NaN;
\* and o.map(f) equals o.flatMap(x => Optional.ofNullable(f(x))) for every
\* Optional o and every mapper f whose result f(x) is strictly equal (===)
\* to itself from one call to the next, which leaves out a result of NaN.
C15_IdentityLaws ==
    /\ \A o \in SelfEqual : MapIdentityLaw(o) /\ FlatMapOfLaw(o)
    /\ \A o \in DOMAIN heap : \A f \in LawMappers :
          (~isPresent(heap, o) \/ ApplyMapper(f, heap[o].value).val # "nan") =>
              MapAsFlatMapLaw(o, f)
    /\ ObservedLaws(SelfEqual)

\* map(x => x) on an Optional holding 0 has returned a new instance that
\* equals the receiver.
C15_Witness ==
    /\ last.op = "map"
    /\ last.fn = "identity"
    /\ heap[last.recv].value = "num0"
    /\ last.kind = "optional"
    /\ last.ref # last.recv
    /\ equals(heap, last.ref, last.recv)

====
